---- MODULE Spec2Model ----
(***************************************************************************)
(* Model of the code runner's execution pipeline (src/main.py):            *)
(* eval_command / process_eval / logs_command, the run history RUN_LOGS    *)
(* and the shared scratch directory TEMP_DIR.                              *)
(*                                                                         *)
(* Strings that the code inspects (argument tokens, file names, language   *)
(* identifiers) are sequences of one-character strings, so that lower(),   *)
(* startswith() and os.path.splitext() are computed, not assumed.          *)
(*                                                                         *)
(* The pipeline runs as asyncio tasks of one event loop: a task is only    *)
(* interleaved with another at an `await`.  subprocess.run blocks the      *)
(* loop.  Each action below is therefore one stretch of code between two   *)
(* suspension points.                                                      *)
(***************************************************************************)
EXTENDS Integers, Sequences, FiniteSets, TLC

\* RUN_LOGS    the run history list
\* temp_files  the names of the files in TEMP_DIR
\* task        the local variables and position of each task's invocation,
\*             with what it has done so far: replies sent, subprocesses
\*             started, purges, history appends, the order of these events
\*             (events), and whether every file a phase was started on was
\*             in TEMP_DIR at that moment (intact)
\* history     every entry ever appended to RUN_LOGS, in order
\* logs_text   the lines of the last reply of logs_command
\* logs_seen   the number of entries recorded before that reply
VARIABLES RUN_LOGS, temp_files, task, history, logs_text, logs_seen

vars == <<RUN_LOGS, temp_files, task, history, logs_text, logs_seen>>

\* ------------------------------------------------------------------------
\* Program constants
\* ------------------------------------------------------------------------
MAX_LOGS == 10

\* len(output_text) > 1800
OUTPUT_LIMIT == 1800

\* text[:1900] in logs_command
LOGS_LIMIT == 1900

\* Python's None (distinct from every string, the empty string included)
None == <<"<None>">>

\* Python truthiness of an Optional[str]: None and "" are both falsy
Truthy(s) == s # None /\ s # <<>>

\* ------------------------------------------------------------------------
\* Strings
\* ------------------------------------------------------------------------
UPPER == <<"A","B","C","D","E","F","G","H","I","J","K","L","M",
           "N","O","P","Q","R","S","T","U","V","W","X","Y","Z">>
LOWER == <<"a","b","c","d","e","f","g","h","i","j","k","l","m",
           "n","o","p","q","r","s","t","u","v","w","x","y","z">>

LowerChar(ch) ==
    IF \E k \in 1..26 : UPPER[k] = ch
    THEN LOWER[CHOOSE k \in 1..26 : UPPER[k] = ch]
    ELSE ch

\* str.lower()
Lower(s) == [k \in 1..Len(s) |-> LowerChar(s[k])]

\* str.startswith("-")
StartsWithDash(s) == Len(s) >= 1 /\ s[1] = "-"

\* os.path.splitext(name)[1]: from the last dot, unless only dots precede it
SplitExt(name) ==
    LET dots == {k \in 1..Len(name) : name[k] = "."}
    IN  IF dots = {} THEN <<>>
        ELSE LET d == CHOOSE k \in dots : \A j \in dots : j <= k
             IN  IF \A j \in 1..(d - 1) : name[j] = "." THEN <<>>
                 ELSE SubSeq(name, d, Len(name))

\* number of decimal digits of n >= 0, as str(n) prints it
RECURSIVE Digits(_)
Digits(n) == IF n < 10 THEN 1 ELSE 1 + Digits(n \div 10)

DashL  == <<"-","l">>
DashC  == <<"-","c">>
DashLn == <<"-","l","n">>
DashF  == <<"-","f">>
DashFl == <<"-","f","l">>

\* ------------------------------------------------------------------------
\* Language registry
\* ------------------------------------------------------------------------
LangC      == <<"c">>
LangPython == <<"p","y","t","h","o","n">>
LangRust   == <<"r","u","s","t">>
LangGo     == <<"g","o">>
LangBash   == <<"b","a","s","h">>

\* dict insertion order, as LANGUAGES.items() iterates
LANG_ORDER == <<LangC, LangPython, LangRust, LangGo, LangBash>>

LangKeys == {LANG_ORDER[k] : k \in 1..Len(LANG_ORDER)}

LANGUAGES ==
    [l \in LangKeys |->
        CASE l = LangC      -> [compile |-> TRUE,  extension |-> <<".","c">>]
          [] l = LangPython -> [compile |-> FALSE, extension |-> <<".","p","y">>]
          [] l = LangRust   -> [compile |-> TRUE,  extension |-> <<".","r","s">>]
          [] l = LangGo     -> [compile |-> TRUE,  extension |-> <<".","g","o">>]
          [] l = LangBash   -> [compile |-> FALSE, extension |-> <<".","s","h">>]]

\* LANGUAGES.get(language) is not None
Registered(language) == language \in LangKeys

\* Detect with the comparison made against "." + the language's name
\* instead of its extension
Detect_ByName(ext) ==
    LET hits == {k \in 1..Len(LANG_ORDER) : <<".">> \o LANG_ORDER[k] = ext}
    IN  IF hits = {} THEN None
        ELSE LANG_ORDER[CHOOSE k \in hits : \A j \in hits : k <= j]

\* the auto-detect loop: first registry entry, in order, whose extension is ext
Detect(ext) ==
    LET hits == {k \in 1..Len(LANG_ORDER) : LANGUAGES[LANG_ORDER[k]].extension = ext}
    IN  IF hits = {} THEN None
        ELSE LANG_ORDER[CHOOSE k \in hits : \A j \in hits : k <= j]

\* ------------------------------------------------------------------------
\* Argument parsing (process_eval, "Parse args")
\* ------------------------------------------------------------------------
NoArgs == [language |-> None, code |-> None, linked_files |-> <<>>,
           compiler_flags |-> <<>>, raised |-> FALSE]

\* the inner while of -ln: first index at or after i that ends the name list
RECURSIVE LnEnd(_, _)
LnEnd(args, i) ==
    IF i <= Len(args) /\ ~StartsWithDash(args[i]) THEN LnEnd(args, i + 1) ELSE i

\* the outer while; args[i + 1] past the end raises IndexError
RECURSIVE ParseFrom(_, _, _)
ParseFrom(args, i, acc) ==
    IF i > Len(args) THEN acc
    ELSE IF args[i] = DashL THEN
        IF i + 1 > Len(args) THEN [acc EXCEPT !.raised = TRUE]
        ELSE ParseFrom(args, i + 2, [acc EXCEPT !.language = Lower(args[i + 1])])
    ELSE IF args[i] = DashC THEN
        IF i + 1 > Len(args) THEN [acc EXCEPT !.raised = TRUE]
        ELSE ParseFrom(args, i + 2, [acc EXCEPT !.code = args[i + 1]])
    ELSE IF args[i] = DashLn THEN
        LET j == LnEnd(args, i + 1)
        IN  ParseFrom(args, j,
                [acc EXCEPT !.linked_files = @ \o SubSeq(args, i + 1, j - 1)])
    ELSE IF args[i] = DashF THEN
        IF i + 1 > Len(args) THEN [acc EXCEPT !.raised = TRUE]
        ELSE ParseFrom(args, i + 2, [acc EXCEPT !.compiler_flags = args[i + 1]])
    ELSE ParseFrom(args, i + 1, acc)

ParseArgs(args) == ParseFrom(args, 1, NoArgs)

\* ------------------------------------------------------------------------
\* Byte strings captured from a subprocess: their length in bytes and the
\* length in characters of their UTF-8 decoding (chars = -1: not valid
\* UTF-8, bytes.decode() raises UnicodeDecodeError)
\* ------------------------------------------------------------------------
Bytes(n, m) == [bytes |-> n, chars |-> m]

\* bytes.decode() raises
DecodeRaises(b) == b.chars < 0

\* len(bytes.decode())
DecodedLen(b) == b.chars

\* ------------------------------------------------------------------------
\* Replies (interaction.followup.send): what is sent, the length of its text
\* and whether a file is attached
\* ------------------------------------------------------------------------
Reply(kind, chars, file) == [kind |-> kind, chars |-> chars, file |-> file]

\* f"Unsupported language: {language}"
UnsupportedText(language) ==
    22 + (IF language = None THEN 4 ELSE Len(language))

\* ------------------------------------------------------------------------
\* Tasks and the local variables of process_eval
\* ------------------------------------------------------------------------
Tasks == {"t1", "t2"}

\* uuid.uuid4().hex: the n-th identifier drawn by an invocation of task t.
\* No identifier is drawn twice while a file or a task still carries it: the
\* identifiers of a finished invocation name no file any more.
UUID4 == [t \in Tasks |-> IF t = "t1" THEN <<"#1", "#2">> ELSE <<"#3", "#4">>]

NoResult == [timeout |-> FALSE, returncode |-> -1,
             stdout |-> Bytes(0, 0), stderr |-> Bytes(0, 0)]

Idle ==
    [pc |-> "idle", after |-> "none",
     args |-> <<>>, attachments |-> <<>>,
     language |-> None, code |-> None, linked_files |-> <<>>,
     compiler_flags |-> <<>>, sources |-> <<>>, output_name |-> <<>>,
     used_attachments |-> <<>>, k |-> 0,
     compile_result |-> NoResult, run_result |-> NoResult,
     replies |-> <<>>, compiles |-> 0, runs |-> 0, purges |-> 0,
     appended |-> 0, events |-> <<>>, intact |-> TRUE]

\* ------------------------------------------------------------------------
\* process_eval, last block first.  g is the program state seen by the
\* running task: [RUN_LOGS, temp_files, history, t (its locals)].  o holds
\* what the environment returns to this stretch of code: o.cr and o.rr (the
\* two subprocess results) and o.tb (length of traceback.format_exc()).
\* ------------------------------------------------------------------------

\* finally: remove every file listed in TEMP_DIR
Finally(g) ==
    [g EXCEPT !.temp_files = {},
              !.t.purges = @ + 1,
              !.t.events = Append(@, "purge"),
              !.t.pc = "done"]

\* await interaction.followup.send(...): the reply is handed over and the
\* task is suspended; `after` is where it resumes
Send(g, reply, after) ==
    [g EXCEPT !.t.replies = Append(@, reply),
              !.t.events = Append(@, "reply"),
              !.t.pc = "send",
              !.t.after = after]

\* except subprocess.TimeoutExpired
TimedOutHandler(g) == Send(g, Reply("TimedOut", 20, FALSE), "finally")

\* except Exception
InternalErrorHandler(g, o) ==
    Send(g, Reply("InternalError", 10 + o.tb + 3, FALSE), "finally")

\* SendOutput with the comparison off by one: a text of exactly 1800
\* characters is spilled too
SendOutput_AtLimit(g, output_len) ==
    IF output_len >= OUTPUT_LIMIT
    THEN Send([g EXCEPT !.temp_files = @ \cup {<<"o","u","t","p","u","t",".","t","x","t">>}],
              Reply("OutputFile", 33, TRUE), "finally")
    ELSE Send(g, Reply("Output", output_len, FALSE), "finally")

\* "Send output"
SendOutput(g, output_len) ==
    IF output_len > OUTPUT_LIMIT
    THEN Send([g EXCEPT !.temp_files = @ \cup {<<"o","u","t","p","u","t",".","t","x","t">>}],
              Reply("OutputFile", 33, TRUE), "finally")
    ELSE Send(g, Reply("Output", output_len, FALSE), "finally")

\* "Save to log" on the completed path: append, then evict the oldest
RecordRun(g, entry) ==
    LET logs == Append(g.RUN_LOGS, entry)
    IN  [g EXCEPT !.RUN_LOGS = IF Len(logs) > MAX_LOGS THEN Tail(logs) ELSE logs,
                  !.history = Append(@, entry),
                  !.t.events = Append(@, "record"),
                  !.t.appended = @ + 1]

\* len(output_text) for a finished run
OutputTextLen(res) ==
    LET out == IF res.stdout.bytes > 0 THEN 15 + DecodedLen(res.stdout) + 4 ELSE 0
        err == IF res.stderr.bytes > 0 THEN 15 + DecodedLen(res.stderr) + 3 ELSE 0
    IN  IF out + err = 0 THEN 10 ELSE out + err

\* every path of the list names a file of the directory
AllPresent(paths, dir) == \A k \in 1..Len(paths) : paths[k] \in dir

\* "Run program" up to "Send output"
RunProgram(g, o) ==
    LET needed == IF LANGUAGES[g.t.language].compile THEN <<g.t.output_name>>
                  ELSE g.t.sources
        g1 == [g EXCEPT !.t.runs = @ + 1, !.t.run_result = o.rr,
                        !.t.events = Append(@, "run"),
                        !.t.intact = @ /\ AllPresent(needed, g.temp_files)]
        g2 == [g1 EXCEPT !.t.events = Append(@, "render")]
    IN  IF o.rr.timeout THEN TimedOutHandler(g1)
        ELSE IF (o.rr.stdout.bytes > 0 /\ DecodeRaises(o.rr.stdout))
                \/ (o.rr.stderr.bytes > 0 /\ DecodeRaises(o.rr.stderr))
        THEN InternalErrorHandler(g1, o)
        ELSE SendOutput(
                RecordRun(g2, [language |-> g.t.language, what |-> "run OK",
                               bytes |-> o.rr.stdout.bytes]),
                OutputTextLen(o.rr))

\* RecordCompileFailed with the append left out
RecordCompileFailed_NoAppend(g) == g

\* RUN_LOGS.append(f"{language} compile failed"); return
RecordCompileFailed(g) ==
    LET entry == [language |-> g.t.language, what |-> "compile failed", bytes |-> 0]
    IN  [g EXCEPT !.RUN_LOGS = Append(@, entry),
                  !.history = Append(@, entry),
                  !.t.events = Append(@, "record"),
                  !.t.appended = @ + 1]

\* Compile with the compiler's timeout not ending the invocation: the run
\* phase follows
Compile_RunsAfterTimeout(g, o) ==
    IF LANGUAGES[g.t.language].compile
    THEN LET g1 == [g EXCEPT !.t.compiles = @ + 1, !.t.compile_result = o.cr,
                             !.t.events = Append(@, "compile"),
                             !.t.intact = @ /\ AllPresent(g.t.sources, g.temp_files)]
             g2 == [g1 EXCEPT !.t.events = Append(@, "render")]
         IN  IF ~o.cr.timeout /\ o.cr.returncode # 0
             THEN IF DecodeRaises(o.cr.stderr)
                  THEN InternalErrorHandler(g1, o)
                  ELSE Send(g2, Reply("CompileFailed",
                                      27 + DecodedLen(o.cr.stderr) + 3, FALSE), "log")
             ELSE RunProgram([g1 EXCEPT !.temp_files = @ \cup {g.t.output_name}], o)
    ELSE RunProgram(g, o)

\* "Compile if needed"
Compile(g, o) ==
    IF LANGUAGES[g.t.language].compile
    THEN LET g1 == [g EXCEPT !.t.compiles = @ + 1, !.t.compile_result = o.cr,
                             !.t.events = Append(@, "compile"),
                             !.t.intact = @ /\ AllPresent(g.t.sources, g.temp_files)]
             g2 == [g1 EXCEPT !.t.events = Append(@, "render")]
         IN  IF o.cr.timeout THEN TimedOutHandler(g1)
             ELSE IF o.cr.returncode # 0
             THEN IF DecodeRaises(o.cr.stderr)
                  THEN InternalErrorHandler(g1, o)
                  ELSE Send(g2, Reply("CompileFailed",
                                      27 + DecodedLen(o.cr.stderr) + 3, FALSE), "log")
             ELSE RunProgram([g1 EXCEPT !.temp_files = @ \cup {g.t.output_name}], o)
    ELSE RunProgram(g, o)

\* "Validate language"
Validate(g, o) ==
    IF ~Registered(g.t.language)
    THEN Send(g, Reply("UnsupportedLanguage", UnsupportedText(g.t.language), FALSE),
              "finally")
    ELSE Compile(g, o)

\* "Auto detect language if not set and files uploaded"
AutoDetect(g, o) ==
    IF ~Truthy(g.t.language) /\ g.t.used_attachments # <<>>
    THEN LET language == Detect(SplitExt(g.t.used_attachments[1]))
         IN  IF ~Truthy(language)
             THEN Send(g, Reply("AutoDetectFailed", 51, FALSE), "finally")
             ELSE Validate([g EXCEPT !.t.language = language], o)
    ELSE Validate(g, o)

\* attachment.filename in linked_files
InList(name, list) == \E j \in 1..Len(list) : list[j] = name

\* SaveAttachments with the allow-list test left out: every attachment is
\* saved
SaveAttachments_IgnoreList(g, k, o) ==
    IF k > Len(g.t.attachments) THEN AutoDetect(g, o)
    ELSE [g EXCEPT !.t.pc = "save", !.t.k = k]

\* "Save attachments if provided": the loop from the k-th attachment on, up
\* to the next `await attachment.save(file_path)`
RECURSIVE SaveAttachments(_, _, _)
SaveAttachments(g, k, o) ==
    IF k > Len(g.t.attachments) THEN AutoDetect(g, o)
    ELSE IF g.t.linked_files = <<>> \/ InList(g.t.attachments[k], g.t.linked_files)
    THEN [g EXCEPT !.t.pc = "save", !.t.k = k]
    ELSE SaveAttachments(g, k + 1, o)

\* attachment.save returns: the file is written, then the loop goes on
AfterSave(g, o) ==
    LET name == g.t.attachments[g.t.k]
    IN  SaveAttachments(
            [g EXCEPT !.temp_files = @ \cup {name},
                      !.t.sources = Append(@, name),
                      !.t.used_attachments = Append(@, name)],
            g.t.k + 1, o)

\* InlineCode with an await (a progress message) between the write of the
\* source file and the rest of process_eval
InlineCode_AwaitsAfterWrite(g, uuid, o) ==
    IF Truthy(g.t.code)
    THEN IF ~Truthy(g.t.language)
         THEN Send(g, Reply("MissingLanguage", 58, FALSE), "finally")
         ELSE IF ~Registered(g.t.language)
         THEN Send(g, Reply("UnsupportedLanguage", UnsupportedText(g.t.language), FALSE),
                   "finally")
         ELSE LET source_file == <<uuid[2]>> \o LANGUAGES[g.t.language].extension
              IN  Send([g EXCEPT !.temp_files = @ \cup {source_file},
                                 !.t.sources = Append(@, source_file)],
                       Reply("Progress", 0, FALSE), "finally")
    ELSE SaveAttachments(g, 1, o)

\* "Save inline code if provided"
InlineCode(g, uuid, o) ==
    IF Truthy(g.t.code)
    THEN IF ~Truthy(g.t.language)
         THEN Send(g, Reply("MissingLanguage", 58, FALSE), "finally")
         ELSE IF ~Registered(g.t.language)
         THEN Send(g, Reply("UnsupportedLanguage", UnsupportedText(g.t.language), FALSE),
                   "finally")
         ELSE LET source_file == <<uuid[2]>> \o LANGUAGES[g.t.language].extension
              IN  SaveAttachments(
                      [g EXCEPT !.temp_files = @ \cup {source_file},
                                !.t.sources = Append(@, source_file)],
                      1, o)
    ELSE SaveAttachments(g, 1, o)

\* process_eval from its first line to its first suspension.  An IndexError
\* of the parsing loop is raised before the try statement is entered.
ProcessEval(g, args, attachments, uuid, o) ==
    LET p == ParseArgs(args)
        t0 == [Idle EXCEPT !.args = args, !.attachments = attachments]
    IN  IF p.raised THEN [g EXCEPT !.t = [t0 EXCEPT !.pc = "raised"]]
        ELSE InlineCode(
                [g EXCEPT !.t = [t0 EXCEPT !.language = p.language,
                                           !.code = p.code,
                                           !.linked_files = p.linked_files,
                                           !.compiler_flags = p.compiler_flags,
                                           !.output_name = <<uuid[1]>>]],
                uuid, o)

\* AfterSend with the compile-failed record made after the cleanup
AfterSend_PurgeFirst(g) ==
    IF g.t.after = "log" THEN RecordCompileFailed(Finally(g)) ELSE Finally(g)

\* the task resumes after a send
AfterSend(g) ==
    IF g.t.after = "log" THEN Finally(RecordCompileFailed(g)) ELSE Finally(g)

\* ------------------------------------------------------------------------
\* logs_command: the lines of the reply, newest first, cut at 1900 characters
\* ------------------------------------------------------------------------

\* len(f"\n`{log}`")
LineLen(log) ==
    3 + Len(log.language) +
    (IF log.what = "compile failed" THEN 15 ELSE 9 + Digits(log.bytes) + 11)

\* LastReversed with the slice taken from the wrong end: RUN_LOGS[:MAX_LOGS]
LastReversed_Oldest(logs) ==
    LET n == IF Len(logs) > MAX_LOGS THEN MAX_LOGS ELSE Len(logs)
    IN  [k \in 1..n |-> logs[n - k + 1]]

\* reversed(RUN_LOGS[-MAX_LOGS:])
LastReversed(logs) ==
    LET n == IF Len(logs) > MAX_LOGS THEN MAX_LOGS ELSE Len(logs)
    IN  [k \in 1..n |-> logs[Len(logs) - k + 1]]

\* text[:1900]: the lines that are still whole after the cut
RECURSIVE WholeLines(_, _, _)
WholeLines(lines, k, used) ==
    IF k > Len(lines) \/ used + LineLen(lines[k]) > LOGS_LIMIT THEN <<>>
    ELSE <<lines[k]>> \o WholeLines(lines, k + 1, used + LineLen(lines[k]))

LogsText(logs) == WholeLines(LastReversed(logs), 1, 15)

\* ------------------------------------------------------------------------
\* Inputs
\* ------------------------------------------------------------------------
FileAC  == <<"a",".","c">>
FileBC  == <<"b",".","c">>
FileAPy == <<"a",".","p","y">>
FileTxt == <<"n",".","t","x","t">>
FileARs == <<"a",".","r","s">>
FileAGo == <<"a",".","g","o">>
FileASh == <<"a",".","s","h">>

CodeX == <<"x">>

ArgLists ==
    { <<DashL, LangPython, DashC, CodeX>>,
      <<DashL, <<"C">>, DashC, CodeX, DashF, <<"-","O">>>>,
      <<DashC, CodeX>>,
      <<DashC, <<>>>>,
      <<DashL, <<"x">>, DashC, CodeX>>,
      <<DashL>>,
      <<DashL, LangPython, DashC>>,
      <<DashL, LangPython>>,
      <<DashFl>>,
      <<DashFl, DashLn, FileBC>>,
      <<DashFl, DashLn, FileBC, FileAC>>,
      <<DashFl, DashL, LangPython>>,
      <<DashFl, DashL, <<>>>>,
      <<DashFl, DashC, CodeX>>,
      <<DashFl, DashC, <<>>>>,
      <<DashFl, DashL, LangC, DashC, CodeX>> }

AttachmentLists ==
    { <<FileAC>>, <<FileAC, FileBC>>, <<FileAPy>>, <<FileTxt>>,
      <<FileARs>>, <<FileAGo>>, <<FileASh>> }

CompileResults ==
    { [timeout |-> TRUE,  returncode |-> -1, stdout |-> Bytes(0, 0), stderr |-> Bytes(0, 0)],
      [timeout |-> FALSE, returncode |-> 0,  stdout |-> Bytes(0, 0), stderr |-> Bytes(0, 0)],
      [timeout |-> FALSE, returncode |-> 1,  stdout |-> Bytes(0, 0), stderr |-> Bytes(1, 1)],
      [timeout |-> FALSE, returncode |-> 1,  stdout |-> Bytes(0, 0), stderr |-> Bytes(1900, 1900)],
      [timeout |-> FALSE, returncode |-> 1,  stdout |-> Bytes(0, 0), stderr |-> Bytes(2, -1)] }

RunResults ==
    { [timeout |-> TRUE,  returncode |-> -1, stdout |-> Bytes(0, 0), stderr |-> Bytes(0, 0)],
      [timeout |-> FALSE, returncode |-> 0,  stdout |-> Bytes(0, 0), stderr |-> Bytes(0, 0)],
      [timeout |-> FALSE, returncode |-> 0,  stdout |-> Bytes(1, 1), stderr |-> Bytes(0, 0)],
      [timeout |-> FALSE, returncode |-> 1,  stdout |-> Bytes(0, 0), stderr |-> Bytes(1, 1)],
      [timeout |-> FALSE, returncode |-> 0,  stdout |-> Bytes(1781, 1781), stderr |-> Bytes(0, 0)],
      [timeout |-> FALSE, returncode |-> 0,  stdout |-> Bytes(1784, 1782), stderr |-> Bytes(0, 0)],
      [timeout |-> FALSE, returncode |-> 1,  stdout |-> Bytes(1781, 1781), stderr |-> Bytes(1, 1)],
      [timeout |-> FALSE, returncode |-> 0,  stdout |-> Bytes(2, -1), stderr |-> Bytes(0, 0)] }

TracebackLens == {300}

Oracles == [cr : CompileResults, rr : RunResults, tb : TracebackLens]

\* the inputs of the two-task specification: what the tasks need to meet in
\* the scratch directory and in the history
ConcArgLists ==
    { <<DashL, LangPython, DashC, CodeX>>,
      <<DashL, LangC, DashC, CodeX>>,
      <<DashFl>>,
      <<DashFl, DashL, LangC, DashC, CodeX>> }

ConcAttachmentLists == { <<FileAC>>, <<FileAC, FileBC>> }

ConcOracles ==
    [cr : {r \in CompileResults : ~r.timeout /\ r.stderr.bytes <= 1},
     rr : {r \in RunResults : r.stdout.bytes \in {1, 1784}},
     tb : TracebackLens]

\* the inputs of the long-history specification: one request that records a
\* compile failure, one that records a run, one that records nothing
SeqArgLists ==
    { <<DashL, LangC, DashC, CodeX>>,
      <<DashL, LangPython, DashC, CodeX>>,
      <<DashC, CodeX>>,
      <<DashFl>> }

SeqOracles ==
    [cr : {r \in CompileResults : r.stderr.bytes = 1},
     rr : {r \in RunResults : r.timeout \/ r.stdout.bytes = 1},
     tb : TracebackLens]

\* bounds on the number of history records of a behaviour
MaxRecords == 2
MaxSoloRecords == 1
MaxSeqRecords == 11

\* what a specification draws its inputs from
ConcEnv == [args |-> ConcArgLists, attachments |-> ConcAttachmentLists,
            oracles |-> ConcOracles, max |-> MaxRecords]
SoloEnv == [args |-> ArgLists, attachments |-> AttachmentLists,
            oracles |-> Oracles, max |-> MaxSoloRecords]
SeqEnv  == [args |-> SeqArgLists, attachments |-> {<<FileAC>>},
            oracles |-> SeqOracles, max |-> MaxSeqRecords]

\* ------------------------------------------------------------------------
\* State machine
\* ------------------------------------------------------------------------
Init ==
    /\ RUN_LOGS = <<>>
    /\ temp_files = {}
    /\ task = [t \in Tasks |-> Idle]
    /\ history = <<>>
    /\ logs_text = <<>>
    /\ logs_seen = 0

InFlight(t) == task[t].pc \in {"defer", "wait_for", "save", "send"}

View(t) == [RUN_LOGS |-> RUN_LOGS, temp_files |-> temp_files,
            history |-> history, t |-> task[t]]

Commit(t, g) ==
    /\ RUN_LOGS' = g.RUN_LOGS
    /\ temp_files' = g.temp_files
    /\ history' = g.history
    /\ task' = [task EXCEPT ![t] = g.t]
    /\ UNCHANGED <<logs_text, logs_seen>>

\* eval_command up to its first suspension: response.defer, or the prompt
\* and client.wait_for when "-fl" is among the arguments
EvalCommand(t, E) ==
    /\ ~InFlight(t)
    /\ Len(history) + Cardinality({u \in Tasks : InFlight(u)}) < E.max
    /\ \E args \in E.args :
          task' = [task EXCEPT ![t] =
                     [Idle EXCEPT !.args = args,
                                  !.pc = IF InList(DashFl, args) THEN "wait_for"
                                         ELSE "defer"]]
    /\ UNCHANGED <<RUN_LOGS, temp_files, history, logs_text, logs_seen>>

\* asyncio.TimeoutError of wait_for: process_eval is not called
WaitTimeout(t) ==
    /\ task[t].pc = "wait_for"
    /\ task' = [task EXCEPT ![t] =
                  [@ EXCEPT !.pc = "no_file",
                            !.replies = Append(@, Reply("WaitTimedOut", 47, FALSE))]]
    /\ UNCHANGED <<RUN_LOGS, temp_files, history, logs_text, logs_seen>>

\* process_eval is called: with no attachment after defer, with the
\* attachments of the awaited message (at least one) after wait_for
ProcessStart(t, E) ==
    /\ task[t].pc \in {"defer", "wait_for"}
    /\ \E attachments \in (IF task[t].pc = "defer" THEN {<<>>} ELSE E.attachments),
          o \in E.oracles :
          Commit(t, ProcessEval(View(t), task[t].args, attachments, UUID4[t], o))

\* attachment.save completes
AttachmentSaved(t, E) ==
    /\ task[t].pc = "save"
    /\ \E o \in E.oracles : Commit(t, AfterSave(View(t), o))

\* followup.send completes
ReplySent(t) ==
    /\ task[t].pc = "send"
    /\ Commit(t, AfterSend(View(t)))

\* logs_command
LogsCommand ==
    /\ logs_text' = LogsText(RUN_LOGS)
    /\ logs_seen' = Len(history)
    /\ UNCHANGED <<RUN_LOGS, temp_files, task, history>>

Step(t, E) ==
    \/ EvalCommand(t, E)
    \/ WaitTimeout(t)
    \/ ProcessStart(t, E)
    \/ AttachmentSaved(t, E)
    \/ ReplySent(t)

\* two concurrent tasks
Next == (\E t \in Tasks : Step(t, ConcEnv)) \/ LogsCommand

Spec == Init /\ [][Next]_vars

\* one invocation at a time, every input
NextSolo == Step("t1", SoloEnv) \/ LogsCommand

SpecSolo == Init /\ [][NextSolo]_vars

\* one invocation at a time, long histories
NextSeq == Step("t1", SeqEnv) \/ LogsCommand

SpecSeq == Init /\ [][NextSeq]_vars

\* ------------------------------------------------------------------------
\* Vocabulary of the properties
\* ------------------------------------------------------------------------

\* the invocation of task t has come to its end: process_eval has returned,
\* or an exception has left it
Ended(t) == task[t].pc \in {"done", "raised"}

Kinds(t) == {task[t].replies[k].kind : k \in 1..Len(task[t].replies)}

ErrorKinds == {"MissingLanguage", "UnsupportedLanguage", "AutoDetectFailed",
               "CompileFailed", "TimedOut", "InternalError"}

ValidationKinds == {"MissingLanguage", "UnsupportedLanguage", "AutoDetectFailed"}

\* a result was delivered: inline, or as a file
Completed(t) == Kinds(t) \cap {"Output", "OutputFile"} # {}

\* args holds the flag followed by a value
HasPair(args, flag) == \E k \in 1..(Len(args) - 1) : args[k] = flag

\* the compile phase of t's invocation ran and exited with a non-zero status
CompileExitedNonZero(t) ==
    /\ task[t].compiles > 0
    /\ ~task[t].compile_result.timeout
    /\ task[t].compile_result.returncode # 0

\* a phase of t's invocation timed out
PhaseTimedOut(t) ==
    \/ task[t].compiles > 0 /\ task[t].compile_result.timeout
    \/ task[t].runs > 0 /\ task[t].run_result.timeout

\* ------------------------------------------------------------------------
\* C1: the run history never holds more than 10 entries, whatever the
\* outcomes of the invocations
\* ------------------------------------------------------------------------
C1_HistoryBounded == Len(RUN_LOGS) <= 10

\* ------------------------------------------------------------------------
\* C2: the purge of the scratch directory has run on every path on which an
\* invocation ends, an error raised while parsing the arguments included
\* ------------------------------------------------------------------------
C2_CleanupAlways == \A t \in Tasks : Ended(t) => task[t].purges = 1

\* ------------------------------------------------------------------------
\* C3: while an invocation is still to compile and run (it is suspended in
\* its attachment loop), every source file it has saved is in the scratch
\* directory: no other invocation's cleanup has deleted it
\* ------------------------------------------------------------------------
C3_NoForeignDelete ==
    \A t \in Tasks :
        task[t].pc = "save" =>
            \A k \in 1..Len(task[t].sources) : task[t].sources[k] \in temp_files

\* ------------------------------------------------------------------------
\* C4: when the compile phase exits non-zero, the run phase is not invoked
\* and the outcome reported is compile-failed
\* ------------------------------------------------------------------------
C4_CompileFailedStops ==
    \A t \in Tasks :
        CompileExitedNonZero(t) =>
            /\ task[t].runs = 0
            /\ Kinds(t) = {"CompileFailed"}

\* ------------------------------------------------------------------------
\* C5: a timeout of either phase ends the invocation as timed-out: a compile
\* timeout is not followed by a run, the only reply is the fixed timed-out
\* message, and no result is sent
\* ------------------------------------------------------------------------
C5_TimeoutShortCircuits ==
    \A t \in Tasks :
        PhaseTimedOut(t) =>
            /\ task[t].compile_result.timeout => task[t].runs = 0
            /\ task[t].replies = <<Reply("TimedOut", 20, FALSE)>>
            /\ ~Completed(t)

C5_Witness ==
    \E t \in Tasks :
        /\ task[t].pc = "done"
        /\ task[t].compiles = 1 /\ task[t].compile_result.timeout

\* ------------------------------------------------------------------------
\* C6: an invocation that ends as completed or as compile-failed has appended
\* exactly one history entry; one that ends in a validation failure or a
\* timeout has appended none
\* ------------------------------------------------------------------------
C6_OneEntryPerRun ==
    \A t \in Tasks :
        task[t].pc = "done" =>
            /\ (Completed(t) \/ "CompileFailed" \in Kinds(t)) => task[t].appended = 1
            /\ (Kinds(t) \cap (ValidationKinds \cup {"TimedOut"}) # {}) =>
                    task[t].appended = 0

C6_Witness ==
    \E t \in Tasks :
        /\ task[t].pc = "done"
        /\ "CompileFailed" \in Kinds(t)
        /\ task[t].appended = 1

\* ------------------------------------------------------------------------
\* C7: after k records the logs query lists the min(k, 10) most recently
\* recorded entries, newest first
\* ------------------------------------------------------------------------
C7_LogsNewestFirst ==
    LET k == logs_seen
        n == IF k < 10 THEN k ELSE 10
    IN  /\ Len(logs_text) = n
        /\ \A i \in 1..n : logs_text[i] = history[k - i + 1]

C7_Witness ==
    /\ logs_seen = 11
    /\ Len(logs_text) = 10
    /\ logs_text[10] = history[2]
    /\ logs_text[1] # logs_text[2]

\* ------------------------------------------------------------------------
\* C8: an argument list with a `-c <value>` pair and no `-l` ends with the
\* MissingLanguage error, and neither phase is invoked
\* ------------------------------------------------------------------------
C8_CodeNeedsLanguage ==
    \A t \in Tasks :
        (HasPair(task[t].args, DashC) /\ ~InList(DashL, task[t].args)) =>
            /\ task[t].compiles = 0 /\ task[t].runs = 0
            /\ Ended(t) => Kinds(t) = {"MissingLanguage"}

\* ------------------------------------------------------------------------
\* C9: an invocation that fails has sent exactly one error report, and no
\* phase was invoked twice
\* ------------------------------------------------------------------------
C9_OneErrorReport ==
    \A t \in Tasks :
        /\ task[t].compiles <= 1 /\ task[t].runs <= 1
        /\ (Ended(t) /\ ~Completed(t)) =>
                /\ Len(task[t].replies) = 1
                /\ task[t].replies[1].kind \in ErrorKinds

\* ------------------------------------------------------------------------
\* C10: a completed run's result goes to a file exactly when its rendered
\* text is longer than 1800 characters: 1800 inline, 1801 as a file
\* ------------------------------------------------------------------------
C10_SpillBoundary ==
    \A t \in Tasks :
        Completed(t) =>
            LET len == OutputTextLen(task[t].run_result)
            IN  IF len > 1800
                THEN task[t].replies = <<Reply("OutputFile", 33, TRUE)>>
                ELSE task[t].replies = <<Reply("Output", len, FALSE)>>

C10_Witness ==
    \E t \in Tasks :
        /\ OutputTextLen(task[t].run_result) = 1800
        /\ task[t].replies = <<Reply("Output", 1800, FALSE)>>

\* ------------------------------------------------------------------------
\* C11: the attachments saved and added to the sources are, in the order of
\* the attachment list, those named in the -ln allow-list, or all of them
\* when the allow-list is empty
\* ------------------------------------------------------------------------

\* the attachments among the first n that the allow-list lets through
RECURSIVE C11_Allowed(_, _, _)
C11_Allowed(attachments, allow, n) ==
    IF n = 0 THEN <<>>
    ELSE LET rest == C11_Allowed(attachments, allow, n - 1)
         IN  IF allow = <<>> \/ \E j \in 1..Len(allow) : allow[j] = attachments[n]
             THEN Append(rest, attachments[n])
             ELSE rest

\* the invocation of t did not stop at the inline-code checks
C11_ReachedLoop(t) ==
    /\ task[t].pc \in {"save", "send", "done"}
    /\ Truthy(task[t].code) => Registered(ParseArgs(task[t].args).language)

C11_AllowListFilters ==
    \A t \in Tasks :
        C11_ReachedLoop(t) =>
            LET n == IF task[t].pc = "save" THEN task[t].k - 1
                     ELSE Len(task[t].attachments)
                saved == C11_Allowed(task[t].attachments,
                                     ParseArgs(task[t].args).linked_files, n)
                inline == Len(task[t].sources) - Len(saved)
            IN  /\ task[t].used_attachments = saved
                /\ inline \in {0, 1}
                /\ SubSeq(task[t].sources, inline + 1, Len(task[t].sources)) = saved

C11_Witness ==
    \E t \in Tasks :
        /\ task[t].pc = "done"
        /\ task[t].linked_files = <<FileBC, FileAC>>
        /\ task[t].used_attachments = <<FileAC, FileBC>>

\* ------------------------------------------------------------------------
\* C12: auto-detection applied to the extension of a registered language
\* yields that language and no other
\* ------------------------------------------------------------------------

\* the language of t's invocation was derived from its first saved attachment
C12_AutoDetected(t) ==
    /\ task[t].pc \in {"send", "done"}
    /\ C11_ReachedLoop(t)
    /\ ~Truthy(ParseArgs(task[t].args).language)
    /\ task[t].used_attachments # <<>>

C12_DetectOwnExtension ==
    \A t \in Tasks : \A L \in LangKeys :
        (C12_AutoDetected(t)
            /\ SplitExt(task[t].used_attachments[1]) = LANGUAGES[L].extension)
        => task[t].language = L

C12_Witness ==
    \E t \in Tasks :
        /\ C12_AutoDetected(t)
        /\ task[t].used_attachments = <<FileARs>>
        /\ task[t].language = LangRust
        /\ task[t].compiles = 1

\* ------------------------------------------------------------------------
\* C13: neither phase is ever invoked with an empty source list
\* ------------------------------------------------------------------------
C13_SourcesNotEmpty ==
    \A t \in Tasks :
        (task[t].compiles > 0 \/ task[t].runs > 0) => task[t].sources # <<>>

\* ------------------------------------------------------------------------
\* C14: a record takes effect as a whole: every step that changes the run
\* history leaves it as one append followed by the capacity check and the
\* eviction, so that no history with an append still to be evicted is seen
\* ------------------------------------------------------------------------
C14_RecordIsWhole ==
    [][RUN_LOGS' # RUN_LOGS =>
          /\ Len(history') = Len(history) + 1
          /\ LET full == Append(RUN_LOGS, history'[Len(history')])
             IN  RUN_LOGS' = IF Len(full) > 10 THEN Tail(full) ELSE full]_vars

\* ------------------------------------------------------------------------
\* C15: two invocations in flight at the same time have written no scratch
\* path in common
\* ------------------------------------------------------------------------

\* process_eval of task t is under way
C15_Running(t) == task[t].pc \in {"save", "send"}

\* the scratch paths the invocation of t has written so far: its saved
\* sources, its binary, its spill file
C15_Written(t) ==
    {task[t].sources[k] : k \in 1..Len(task[t].sources)}
    \cup (IF task[t].compiles > 0 /\ ~task[t].compile_result.timeout
             /\ task[t].compile_result.returncode = 0
          THEN {task[t].output_name} ELSE {})
    \cup (IF "OutputFile" \in Kinds(t)
          THEN {<<"o","u","t","p","u","t",".","t","x","t">>} ELSE {})

C15_PathsDisjoint ==
    \A t \in Tasks : \A u \in Tasks \ {t} :
        (C15_Running(t) /\ C15_Running(u)) => C15_Written(t) \cap C15_Written(u) = {}

\* ------------------------------------------------------------------------
\* C16: without -l, the language is the registry entry of the first saved
\* attachment's extension, or the invocation ends with AutoDetectFailed and
\* no phase; with -l, the attachments never change the language
\* ------------------------------------------------------------------------
C16_LanguageChoice ==
    \A t \in Tasks :
        /\ (task[t].pc \in {"save", "send", "done"} /\ HasPair(task[t].args, DashL))
              => task[t].language = ParseArgs(task[t].args).language
        /\ (C12_AutoDetected(t) /\ ~InList(DashL, task[t].args))
              => LET ext == SplitExt(task[t].used_attachments[1])
                     match == {L \in LangKeys : LANGUAGES[L].extension = ext}
                 IN  IF match = {}
                     THEN /\ Kinds(t) = {"AutoDetectFailed"}
                          /\ task[t].compiles = 0 /\ task[t].runs = 0
                     ELSE task[t].language \in match

\* ------------------------------------------------------------------------
\* C17: a run phase that ends within the timeout makes the invocation
\* completed, whatever the exit status: its output is the one reply, and one
\* successful run is recorded
\* ------------------------------------------------------------------------
C17_FinishedRunCompletes ==
    \A t \in Tasks :
        (task[t].runs > 0 /\ ~task[t].run_result.timeout) =>
            /\ Len(task[t].replies) = 1
            /\ task[t].replies[1].kind \in {"Output", "OutputFile"}
            /\ task[t].appended = 1
            /\ history # <<>>
            /\ \E k \in 1..Len(history) :
                  history[k] = [language |-> task[t].language, what |-> "run OK",
                                bytes |-> task[t].run_result.stdout.bytes]

\* ------------------------------------------------------------------------
\* C19: no reply carries more than 1800 characters of text inline, on any
\* outcome
\* ------------------------------------------------------------------------
C19_NoLongInlineReply ==
    \A t \in Tasks : \A k \in 1..Len(task[t].replies) :
        task[t].replies[k].chars <= 1800

\* ------------------------------------------------------------------------
\* C18: an invocation that reaches execution goes through its events in the
\* order phases, rendering, reply and history record, purge: the purge is
\* the last one, after the reply and after the record, on the completed and
\* on the compile-failed path
\* ------------------------------------------------------------------------
C18_Rank(e) ==
    CASE e = "compile" -> 1
      [] e = "run"     -> 2
      [] e = "render"  -> 3
      [] e = "reply"   -> 4
      [] e = "record"  -> 4
      [] e = "purge"   -> 5

C18_PurgeComesLast ==
    \A t \in Tasks :
        (task[t].compiles + task[t].runs > 0) =>
            LET e == task[t].events
                seen == {e[k] : k \in 1..Len(e)}
            IN  /\ \A i \in 1..Len(e) : \A j \in (i + 1)..Len(e) :
                      C18_Rank(e[i]) <= C18_Rank(e[j])
                /\ Cardinality({k \in 1..Len(e) : e[k] = "purge"}) <= 1
                /\ task[t].pc = "done" =>
                      /\ e[Len(e)] = "purge"
                      /\ "reply" \in seen
                      /\ (Completed(t) \/ "CompileFailed" \in Kinds(t)) =>
                              {"render", "record"} \subseteq seen

C18_Witness ==
    \E t \in Tasks :
        task[t].events = <<"compile", "render", "reply", "record", "purge">>

\* ------------------------------------------------------------------------
\* C20: an invocation with inline code and no attachment is never suspended
\* between the write of its source file and the end of its run phase, so
\* each of its phases found its source and its binary in the scratch
\* directory, whatever the other invocation's cleanup did
\* ------------------------------------------------------------------------
C20_InlineOnly(t) ==
    /\ task[t].pc \in {"save", "send", "done"}
    /\ Truthy(task[t].code)
    /\ task[t].attachments = <<>>

\* the compile phase ended the execution, or the run phase was invoked
C20_ExecutionOver(t) ==
    \/ task[t].runs = 1
    \/ /\ task[t].compiles = 1
       /\ task[t].compile_result.timeout \/ task[t].compile_result.returncode # 0

C20_InlineRunsUninterrupted ==
    \A t \in Tasks :
        C20_InlineOnly(t) =>
            /\ task[t].sources # <<>> => C20_ExecutionOver(t)
            /\ task[t].intact

C20_Witness ==
    \E t \in Tasks : \E u \in Tasks \ {t} :
        /\ C20_InlineOnly(t)
        /\ task[t].pc = "send" /\ task[t].runs = 1 /\ task[t].compiles = 1
        /\ task[t].intact
        /\ task[u].pc = "done" /\ task[u].purges = 1
        /\ task[t].sources[1] \notin temp_files

====
